---- MODULE Spec2Model ----
(***************************************************************************)
(* The in-memory task store of test-task-manager (internal/store), the     *)
(* sync.RWMutex that guards it, and the validation of TaskService.Create   *)
(* (internal/service), run by NProcs concurrent request goroutines (Spec),  *)
(* or by one goroutine with the full set of request inputs (SoloSpec) or   *)
(* with every priority marker and colour (PaletteSpec); and what the        *)
(* service and the API handler make of the returns.                        *)
(*                                                                         *)
(* Every store method is split into the steps between which the Go         *)
(* scheduler may switch goroutines: the lock call, each read or write of   *)
(* s.tasks / s.nextID, and the deferred unlock.                            *)
(***************************************************************************)
EXTENDS Integers, Sequences, FiniteSets, TLC

\* ------------------------------------------------------------------ bounds

\* Number of concurrent request goroutines.
NProcs == 2
\* Create is not started once nextID (plus the Creates in flight) passes MaxID.
MaxID == 2
\* In the runs over the whole palette Create is not started once nextID passes
\* MaxPaletteTasks.
MaxPaletteTasks == 1

\* ------------------------------------------------------- program constants

\* len(title) > 255 in TaskService.Create
MaxTitleLen == 255

\* The priority markers. A marker is written as its Unicode code point.
PriorityUrgentImportant == "U+1F525"
PriorityImportant == "U+2B50"
PriorityUrgent == "U+26A1"
PriorityLow == "U+1F4A1"
PriorityDefault == "U+1F4CB"

\* The colours.
ColorRed == "#dc3545"
ColorBlue == "#0d6efd"
ColorYellow == "#ffc107"
ColorGreen == "#28a745"
ColorPurple == "#6f42c1"
ColorOrange == "#fd7e14"
ColorGrey == "#6c757d"

Procs == 1..NProcs

VARIABLES
    tasks,      \* TaskStore.tasks: the slice s.tasks, a sequence of Task
    nextID,     \* TaskStore.nextID
    wHolder,    \* TaskStore.mu: the goroutine that holds or waits to hold the write lock, 0 if none
    readers,    \* TaskStore.mu: the goroutines that hold the read lock
    blocked,    \* TaskStore.mu: the goroutines parked in RLock behind a writer
    pc,         \* pc[p]: where goroutine p stands
    op,         \* op[p]: the call goroutine p is running and its arguments
    task,       \* task[p]: the local variable `task` of TaskStore.Create
    idx,        \* idx[p]: the loop index i at which Toggle / Delete matched (1-based, 0: none)
    cur,        \* cur[p]: the element append() moves next in Delete; the length GetAll allocated
    result,     \* result[p]: what the call returned (or is about to return)
    clock,      \* time.Now(): the number of readings of the wall clock so far
    absTasks,   \* history: the task list of the one-at-a-time store
    absNext,    \* history: the id counter of the one-at-a-time store
    createdIds, \* history: the ids returned by the Create calls that have returned, in order
    deletedIds, \* history: the ids of the tasks Delete has removed
    lastCreated, \* history: the task the latest Create to return has returned
    toggled,    \* history: the ids of the stored tasks Toggle has flipped an odd number of times
    activeFilters, \* the page: the controller's set activeFilters
    activeButtons, \* the page: the filter buttons that carry the class "active"
    listItems,  \* the page: the <li data-task-id> rows of the list, each with its id, its data-priority and whether it carries d-none
    taskCount   \* the page: the text of the taskCount target

vars == <<tasks, nextID, wHolder, readers, blocked, pc, op, task, idx, cur,
          result, clock, absTasks, absNext, createdIds, deletedIds, lastCreated, toggled,
          activeFilters, activeButtons, listItems, taskCount>>

\* ------------------------------------------------------------ model.Task

\* model.Task{}: the zero value (the zero time.Time is written 0).
ZeroTask ==
    [id |-> "", title |-> <<>>, completed |-> FALSE, createdAt |-> 0,
     priority |-> "", color |-> ""]

\* The composite literal that sets neither Priority nor Color.
NewTaskNoMarkers(id, title, priority, color, now) ==
    [id |-> id, title |-> title, completed |-> FALSE, createdAt |-> now,
     priority |-> "", color |-> ""]

\* The composite literal of TaskStore.Create(title, priority, color), built at the
\* clock reading now.
NewTask(id, title, priority, color, now) ==
    [id |-> id, title |-> title, completed |-> FALSE, createdAt |-> now,
     priority |-> priority, color |-> color]

\* ---------------------------------------------------------------- errors

NoErr == "nil"
ErrTaskNotFound == "task not found"
ErrEmptyTitle == "task title cannot be empty"
ErrTitleTooLong == "task title cannot exceed 255 characters"
ErrInvalidPriority == "invalid priority emoticon"
ErrInvalidColor == "invalid color code"

NoResult == [task |-> ZeroTask, list |-> <<>>, err |-> "none"]
NoOp ==
    [kind |-> "none", title |-> <<>>, priority |-> "", color |-> "", id |-> "",
     sentPriority |-> "", sentColor |-> ""]

\* A call of a store method other than Create.
StoreOp(kind, id) == [NoOp EXCEPT !.kind = kind, !.id = id]

\* A call of Create: the title, priority and colour it works on, and the priority and
\* colour of the request as they were sent.
CreateOp(title, priority, color, sentPriority, sentColor) ==
    [NoOp EXCEPT !.kind = "Create", !.title = title, !.priority = priority, !.color = color,
                 !.sentPriority = sentPriority, !.sentColor = sentColor]

\* The error return of a call.
Failure(err) == [task |-> ZeroTask, list |-> <<>>, err |-> err]

\* ------------------------------------------------------- strconv, strings

Digit(d) ==
    CASE d = 0 -> "0" [] d = 1 -> "1" [] d = 2 -> "2" [] d = 3 -> "3" [] d = 4 -> "4"
      [] d = 5 -> "5" [] d = 6 -> "6" [] d = 7 -> "7" [] d = 8 -> "8" [] d = 9 -> "9"

\* strconv.Itoa for the non-negative counter: the decimal digits, most significant first.
RECURSIVE Itoa(_)
Itoa(n) == IF n < 10 THEN Digit(n) ELSE Itoa(n \div 10) \o Digit(n % 10)

\* unicode.IsSpace on the characters the inputs use.
IsSpace(c) == c \in {" ", "\t", "\n", "\r"}

RECURSIVE TrimLeft(_)
\* Leading white space left in place.
TrimLeftNone(s) == s

TrimLeft(s) == IF s # <<>> /\ IsSpace(Head(s)) THEN TrimLeft(Tail(s)) ELSE s

RECURSIVE TrimRight(_)
\* Trailing white space left in place.
TrimRightNone(s) == s

TrimRight(s) ==
    IF s # <<>> /\ IsSpace(s[Len(s)]) THEN TrimRight(SubSeq(s, 1, Len(s) - 1)) ELSE s

\* The title used as sent, untrimmed.
TrimSpaceNone(s) == s

\* strings.TrimSpace: a title is the sequence of its characters.
TrimSpace(s) == TrimRight(TrimLeft(s))

\* The characters of the inputs that UTF-8 encodes in two bytes.
TwoByteChars == {"é"}

\* len(s) of a Go string: the number of bytes of its UTF-8 encoding.
ByteLen(s) == Len(s) + Cardinality({ i \in 1..Len(s) : s[i] \in TwoByteChars })

\* ------------------------------------------------- TaskService validation

\* A length test that already rejects a title of exactly 255 bytes.
TitleTooLongAt255(title) == ByteLen(title) >= MaxTitleLen

\* if len(title) > 255
TitleTooLong(title) == ByteLen(title) > MaxTitleLen

\* The two title checks of TaskService.Create on the trimmed title, in their order.
TitleError(title) ==
    IF title = <<>> THEN ErrEmptyTitle
    ELSE IF TitleTooLong(title) THEN ErrTitleTooLong
    ELSE NoErr


\* The list of markers without the marker of low priority.
validPrioritiesFour ==
    <<PriorityUrgentImportant, PriorityImportant, PriorityUrgent, PriorityDefault>>

validPriorities ==
    <<PriorityUrgentImportant, PriorityImportant, PriorityUrgent, PriorityLow, PriorityDefault>>

\* The colours that are paired with a priority marker: no purple, no orange.
validColorsPaired == <<ColorRed, ColorBlue, ColorYellow, ColorGreen, ColorGrey>>

validColors ==
    <<ColorRed, ColorBlue, ColorYellow, ColorGreen, ColorPurple, ColorOrange, ColorGrey>>

\* A priority check that accepts every marker.
isValidPriorityAny(p) == TRUE

\* isValidPriority: p is one of validPriorities.
isValidPriority(p) == \E i \in 1..Len(validPriorities) : p = validPriorities[i]

\* A colour check that accepts every colour.
isValidColorAny(c) == TRUE

\* isValidColor: c is one of validColors.
isValidColor(c) == \E i \in 1..Len(validColors) : c = validColors[i]

\* No default: an empty priority or colour is passed on as it is.
OrDefaultNone(v, d) == v

\* if priority == "" { priority = PriorityDefault }, and the same for the colour.
OrDefault(v, d) == IF v = "" THEN d ELSE v

\* The checks of the priority and then of the colour, after the defaults are in.
MarkerError(priority, color) ==
    IF ~isValidPriority(priority) THEN ErrInvalidPriority
    ELSE IF ~isValidColor(color) THEN ErrInvalidColor
    ELSE NoErr

\* The priority and the colour checked before the title.
CreateErrorMarkersFirst(title, priority, color) ==
    LET e == MarkerError(OrDefault(priority, PriorityDefault), OrDefault(color, ColorGrey))
    IN  IF e # NoErr THEN e ELSE TitleError(title)

\* The error TaskService.Create returns for a trimmed title and the priority and
\* colour as sent, NoErr if it goes on to the store.
CreateError(title, priority, color) ==
    IF TitleError(title) # NoErr THEN TitleError(title)
    ELSE MarkerError(OrDefault(priority, PriorityDefault), OrDefault(color, ColorGrey))

\* ----------------------------------------------------------------- inputs

Rep(c, n) == [i \in 1..n |-> c]

\* The titles a request may carry while other requests run.
TitleInputs ==
    { <<>>, <<" ">>, <<"\t", " ">>, <<"a">>, <<" ", "a", "\n">>, Rep("a", MaxTitleLen + 1) }

\* The priority and the colour a request carries while other requests run: none.
PriorityInputs == { "" }
ColorInputs == { "" }

\* The titles a lone request may carry: also titles of exactly 255 bytes, bare and
\* wrapped in white space, and 128 two-byte characters (256 bytes).
SoloTitleInputs ==
    TitleInputs \cup
        { Rep("a", MaxTitleLen),
          <<" ">> \o Rep("a", MaxTitleLen) \o <<"\n">>,
          Rep("é", (MaxTitleLen + 1) \div 2) }

\* The priorities a lone request may carry: none, a valid marker, an unknown one.
SoloPriorityInputs == { "", PriorityUrgentImportant, "U+274C" }

\* The colours a lone request may carry: none, a valid colour, an unknown one.
SoloColorInputs == { "", ColorRed, "#invalid" }

\* The ids a request may carry: an id is unknown to the store before its task is
\* created and after it is deleted.
IdInputs == { Itoa(i) : i \in 1..MaxID }

\* ---------------------------------------------------------------- helpers

Set(f, p, v) == [f EXCEPT ![p] = v]

\* for i := range s.tasks { if s.tasks[i].ID == id { ... } }: the first match, 0 if none.
FindIndex(ts, id) ==
    IF \E i \in 1..Len(ts) : ts[i].id = id
    THEN CHOOSE i \in 1..Len(ts) : ts[i].id = id /\ \A j \in 1..(i - 1) : ts[j].id # id
    ELSE 0

\* ---------------------------------------------- the one-at-a-time store
\* Each method of TaskStore run alone, from entry to return, on the list ts and
\* the counter nid: the new list, the new counter and the returned value.
\* The call o of Create carries the title, priority and colour the service passes.

SeqCreate(ts, nid, o, now) ==
    LET t == NewTask(Itoa(nid), o.title, o.priority, o.color, now)
    IN  [tasks |-> Append(ts, t), next |-> nid + 1,
         res |-> [task |-> t, list |-> <<>>, err |-> NoErr]]

SeqToggle(ts, nid, id) ==
    LET i == FindIndex(ts, id)
    IN  IF i = 0
        THEN [tasks |-> ts, next |-> nid,
              res |-> [task |-> ZeroTask, list |-> <<>>, err |-> ErrTaskNotFound]]
        ELSE LET t == [ts[i] EXCEPT !.completed = ~ts[i].completed]
             IN  [tasks |-> [ts EXCEPT ![i] = t], next |-> nid,
                  res |-> [task |-> t, list |-> <<>>, err |-> NoErr]]

SeqDelete(ts, nid, id) ==
    LET i == FindIndex(ts, id)
    IN  IF i = 0
        THEN [tasks |-> ts, next |-> nid,
              res |-> [task |-> ZeroTask, list |-> <<>>, err |-> ErrTaskNotFound]]
        ELSE [tasks |-> SubSeq(ts, 1, i - 1) \o SubSeq(ts, i + 1, Len(ts)), next |-> nid,
              res |-> [task |-> ZeroTask, list |-> <<>>, err |-> NoErr]]

SeqGetAll(ts) == [task |-> ZeroTask, list |-> ts, err |-> NoErr]

SeqGetByID(ts, id) ==
    LET i == FindIndex(ts, id)
    IN  IF i = 0
        THEN [task |-> ZeroTask, list |-> <<>>, err |-> ErrTaskNotFound]
        ELSE [task |-> ts[i], list |-> <<>>, err |-> NoErr]

\* The one-at-a-time store's answer to the call o made at the clock reading now.
SeqApply(ts, nid, o, now) ==
    CASE o.kind = "Create" -> SeqCreate(ts, nid, o, now)
      [] o.kind = "Toggle" -> SeqToggle(ts, nid, o.id)
      [] o.kind = "Delete" -> SeqDelete(ts, nid, o.id)
      [] o.kind = "GetAll" -> [tasks |-> ts, next |-> nid, res |-> SeqGetAll(ts)]
      [] o.kind = "GetByID" -> [tasks |-> ts, next |-> nid, res |-> SeqGetByID(ts, o.id)]

\* ------------------------------------------------------------ sync.RWMutex

\* A write lock that does not keep a second writer out.
CanLockAlways == TRUE

\* rw.w.Lock(): one writer at a time holds (or waits to hold) the write lock.
CanLock == wHolder = 0

\* A write lock that does not wait for the readers inside.
ReadersIgnored == TRUE

\* Lock waits until the readers that held the lock before it have left.
ReadersDrained == readers = {}

\* A read lock that does not wait for the writer.
CanRLockAlways == TRUE

\* A read lock that admits one reader at a time.
CanRLockAlone == wHolder = 0 /\ readers = {}

\* RLock enters at once unless a writer holds or has asked for the lock.
CanRLock == wHolder = 0

\* ------------------------------------------------------------------- Init

\* NewTaskStore(), every goroutine idle.
Init ==
    /\ tasks = <<>>
    /\ nextID = 1
    /\ wHolder = 0
    /\ readers = {}
    /\ blocked = {}
    /\ pc = [p \in Procs |-> "idle"]
    /\ op = [p \in Procs |-> NoOp]
    /\ task = [p \in Procs |-> ZeroTask]
    /\ idx = [p \in Procs |-> 0]
    /\ cur = [p \in Procs |-> 0]
    /\ result = [p \in Procs |-> NoResult]
    /\ clock = 0
    /\ absTasks = <<>>
    /\ absNext = 1
    /\ createdIds = <<>>
    /\ deletedIds = {}
    /\ lastCreated = ZeroTask
    /\ toggled = {}
    /\ activeFilters = {}
    /\ activeButtons = {}
    /\ listItems = <<>>
    /\ taskCount = <<"Showing", 0, "tasks">>

store == <<tasks, nextID>>
mutex == <<wHolder, readers, blocked>>
locals == <<task, idx, cur>>
history == <<absTasks, absNext, createdIds, deletedIds, lastCreated, toggled>>
page == <<activeFilters, activeButtons, listItems, taskCount>>

\* The Create calls that are inside TaskStore.Create.
CreatesInFlight == Cardinality({q \in Procs : op[q].kind = "Create" /\ pc[q] # "idle"})

\* ------------------------------------------------------------ the requests


\* TaskService.Create(title, priority, color), up to its call of s.store.Create or
\* its error return: trim the title, check it, put the defaults in, check the
\* priority and the colour.
SvcCreateCall(p, t, priority, color) ==
    LET title == TrimSpace(t)
        err == CreateError(title, priority, color)
    IN  /\ pc[p] = "idle"
        /\ IF err # NoErr
           THEN /\ result' = Set(result, p, Failure(err))
                /\ op' = Set(op, p, CreateOp(t, priority, color, priority, color))
                /\ pc' = Set(pc, p, "svcRet")
           ELSE /\ op' = Set(op, p, CreateOp(title, OrDefault(priority, PriorityDefault),
                                                OrDefault(color, ColorGrey), priority, color))
                /\ pc' = Set(pc, p, "lock")
                /\ result' = result
        /\ UNCHANGED <<store, mutex, locals, clock, history, page>>

\* A request to create a task arrives while other requests run.
SvcCreate(p) ==
    /\ nextID + CreatesInFlight <= MaxID
    /\ \E t \in TitleInputs, priority \in PriorityInputs, color \in ColorInputs :
            SvcCreateCall(p, t, priority, color)

\* TaskService.Create returns its validation error to the handler.
SvcReturn(p) ==
    /\ pc[p] = "svcRet"
    /\ pc' = Set(pc, p, "idle")
    /\ op' = Set(op, p, NoOp)
    /\ result' = Set(result, p, NoResult)
    /\ UNCHANGED <<store, mutex, locals, clock, history, page>>

\* A request arrives for Toggle or Delete with the id of its path.
StartWrite(p) ==
    /\ pc[p] = "idle"
    /\ \E k \in {"Toggle", "Delete"}, i \in IdInputs :
        op' = Set(op, p, StoreOp(k, i))
    /\ pc' = Set(pc, p, "lock")
    /\ UNCHANGED <<store, mutex, locals, result, clock, history, page>>

\* A caller asks for GetAll or GetByID.
StartRead(p) ==
    /\ pc[p] = "idle"
    /\ \/ op' = Set(op, p, StoreOp("GetAll", ""))
       \/ \E i \in IdInputs : op' = Set(op, p, StoreOp("GetByID", i))
    /\ pc' = Set(pc, p, "rlock")
    /\ UNCHANGED <<store, mutex, locals, result, clock, history, page>>

\* ------------------------------------------------------ the write methods

\* The id taken from the length of the list instead of the counter.
FreshIDFromLen == Itoa(Len(tasks) + 1)

\* ID: strconv.Itoa(s.nextID): the id a Create running now gives its task.
FreshID == Itoa(nextID)


\* A counter that leaves a number out.
NextCounterSkip(n) == n + 2

\* s.nextID++ left out.
NextCounterStuck(n) == n

\* s.nextID++
NextCounter(n) == n + 1

\* The first statement a writer runs once it holds the lock.
WriteBody(kind) ==
    CASE kind = "Create" -> "c_build"
      [] kind = "Toggle" -> "t_scan"
      [] kind = "Delete" -> "d_scan"



\* A Delete that enters its loop without the write lock.
LockNotForDelete(p) ==
    /\ pc[p] = "lock"
    /\ IF op[p].kind = "Delete"
       THEN /\ wHolder' = wHolder
            /\ pc' = Set(pc, p, "d_scan")
       ELSE /\ CanLock
            /\ wHolder' = p
            /\ pc' = Set(pc, p, "drain")
    /\ UNCHANGED <<store, readers, blocked, op, locals, result, clock, history, page>>

\* A Toggle that enters its loop without the write lock.
LockNotForToggle(p) ==
    /\ pc[p] = "lock"
    /\ IF op[p].kind = "Toggle"
       THEN /\ wHolder' = wHolder
            /\ pc' = Set(pc, p, "t_scan")
       ELSE /\ CanLock
            /\ wHolder' = p
            /\ pc' = Set(pc, p, "drain")
    /\ UNCHANGED <<store, readers, blocked, op, locals, result, clock, history, page>>

\* s.mu.Lock(), first half: take the writers' mutex; from now on RLock parks.
Lock(p) ==
    /\ pc[p] = "lock"
    /\ CanLock
    /\ wHolder' = p
    /\ pc' = Set(pc, p, "drain")
    /\ UNCHANGED <<store, readers, blocked, op, locals, result, clock, history, page>>

\* s.mu.Lock(), second half: wait for the readers that are inside to leave.
Drain(p) ==
    /\ pc[p] = "drain"
    /\ ReadersDrained
    /\ pc' = Set(pc, p, WriteBody(op[p].kind))
    /\ UNCHANGED <<store, mutex, op, locals, result, clock, history, page>>

\* Create: task := model.Task{ID: strconv.Itoa(s.nextID), Title: title, ...,
\* CreatedAt: time.Now(), ...}: the wall clock is read once more.
CreateBuild(p) ==
    /\ pc[p] = "c_build"
    /\ clock' = clock + 1
    /\ task' = Set(task, p, NewTask(FreshID, op[p].title, op[p].priority, op[p].color, clock'))
    /\ pc' = Set(pc, p, "c_append")
    /\ UNCHANGED <<store, mutex, op, idx, cur, result, history, page>>

\* Create that puts the new task in front of the list.
CreateAppendFront(p) ==
    /\ pc[p] = "c_append"
    /\ tasks' = <<task[p]>> \o tasks
    /\ pc' = Set(pc, p, "c_inc")
    /\ UNCHANGED <<nextID, mutex, op, locals, result, clock, history, page>>

\* Create: s.tasks = append(s.tasks, task)
CreateAppend(p) ==
    /\ pc[p] = "c_append"
    /\ tasks' = Append(tasks, task[p])
    /\ pc' = Set(pc, p, "c_inc")
    /\ UNCHANGED <<nextID, mutex, op, locals, result, clock, history, page>>

\* Create: s.nextID++; return task
CreateInc(p) ==
    /\ pc[p] = "c_inc"
    /\ nextID' = NextCounter(nextID)
    /\ result' = Set(result, p, [task |-> task[p], list |-> <<>>, err |-> NoErr])
    /\ pc' = Set(pc, p, "unlock")
    /\ UNCHANGED <<tasks, mutex, op, locals, clock, history, page>>

\* Toggle whose not-found return leaves the lock held.
ToggleScanLeak(p) ==
    /\ pc[p] = "t_scan"
    /\ LET i == FindIndex(tasks, op[p].id)
       IN  IF i = 0
           THEN /\ pc' = Set(pc, p, "idle")
                /\ op' = Set(op, p, NoOp)
                /\ UNCHANGED <<idx, result>>
           ELSE /\ idx' = Set(idx, p, i)
                /\ pc' = Set(pc, p, "t_flip")
                /\ UNCHANGED <<op, result>>
    /\ UNCHANGED <<store, mutex, task, cur, clock, history, page>>

\* Toggle whose not-found return reports no error.
ToggleScanSilent(p) ==
    /\ pc[p] = "t_scan"
    /\ LET i == FindIndex(tasks, op[p].id)
       IN  IF i = 0
           THEN /\ result' = Set(result, p, [task |-> ZeroTask, list |-> <<>>, err |-> NoErr])
                /\ pc' = Set(pc, p, "unlock")
                /\ idx' = idx
           ELSE /\ idx' = Set(idx, p, i)
                /\ pc' = Set(pc, p, "t_flip")
                /\ result' = result
    /\ UNCHANGED <<store, mutex, op, task, cur, clock, history, page>>

\* Toggle: the loop over s.tasks up to the first match, or to its end.
ToggleScan(p) ==
    /\ pc[p] = "t_scan"
    /\ LET i == FindIndex(tasks, op[p].id)
       IN  IF i = 0
           THEN /\ result' = Set(result, p, Failure(ErrTaskNotFound))
                /\ pc' = Set(pc, p, "unlock")
                /\ idx' = idx
           ELSE /\ idx' = Set(idx, p, i)
                /\ pc' = Set(pc, p, "t_flip")
                /\ result' = result
    /\ UNCHANGED <<store, mutex, op, task, cur, clock, history, page>>


\* Toggle that moves the task it flips to the end of the list.
ToggleFlipToEnd(p) ==
    /\ pc[p] = "t_flip"
    /\ idx[p] <= Len(tasks)
    /\ LET t == [tasks[idx[p]] EXCEPT !.completed = ~tasks[idx[p]].completed]
       IN  /\ tasks' = Append(SubSeq(tasks, 1, idx[p] - 1) \o SubSeq(tasks, idx[p] + 1, Len(tasks)), t)
           /\ result' = Set(result, p, [task |-> t, list |-> <<>>, err |-> NoErr])
    /\ idx' = Set(idx, p, 0)
    /\ pc' = Set(pc, p, "unlock")
    /\ UNCHANGED <<nextID, mutex, op, task, cur, clock, history, page>>

\* Toggle that marks the task completed instead of flipping the flag.
ToggleFlipSet(p) ==
    /\ pc[p] = "t_flip"
    /\ idx[p] <= Len(tasks)
    /\ LET t == [tasks[idx[p]] EXCEPT !.completed = TRUE]
       IN  /\ tasks' = [tasks EXCEPT ![idx[p]] = t]
           /\ result' = Set(result, p, [task |-> t, list |-> <<>>, err |-> NoErr])
    /\ idx' = Set(idx, p, 0)
    /\ pc' = Set(pc, p, "unlock")
    /\ UNCHANGED <<nextID, mutex, op, task, cur, clock, history, page>>

\* Toggle that flips the first task of the list instead of the one it found.
ToggleFlipFirst(p) ==
    /\ pc[p] = "t_flip"
    /\ idx[p] <= Len(tasks)
    /\ LET t == [tasks[1] EXCEPT !.completed = ~tasks[1].completed]
       IN  /\ tasks' = [tasks EXCEPT ![1] = t]
           /\ result' = Set(result, p, [task |-> t, list |-> <<>>, err |-> NoErr])
    /\ idx' = Set(idx, p, 0)
    /\ pc' = Set(pc, p, "unlock")
    /\ UNCHANGED <<nextID, mutex, op, task, cur, clock, history, page>>

\* Toggle: s.tasks[i].Completed = !s.tasks[i].Completed; return s.tasks[i], nil
ToggleFlip(p) ==
    /\ pc[p] = "t_flip"
    /\ idx[p] <= Len(tasks)
    /\ LET t == [tasks[idx[p]] EXCEPT !.completed = ~tasks[idx[p]].completed]
       IN  /\ tasks' = [tasks EXCEPT ![idx[p]] = t]
           /\ result' = Set(result, p, [task |-> t, list |-> <<>>, err |-> NoErr])
    /\ idx' = Set(idx, p, 0)
    /\ pc' = Set(pc, p, "unlock")
    /\ UNCHANGED <<nextID, mutex, op, task, cur, clock, history, page>>

\* Delete whose not-found return leaves the lock held.
DeleteScanLeak(p) ==
    /\ pc[p] = "d_scan"
    /\ LET i == FindIndex(tasks, op[p].id)
       IN  IF i = 0
           THEN /\ pc' = Set(pc, p, "idle")
                /\ op' = Set(op, p, NoOp)
                /\ UNCHANGED <<idx, cur, result>>
           ELSE /\ idx' = Set(idx, p, i)
                /\ cur' = Set(cur, p, i)
                /\ pc' = Set(pc, p, "d_shift")
                /\ UNCHANGED <<op, result>>
    /\ UNCHANGED <<store, mutex, task, clock, history, page>>

\* Delete that, once it has found the id, removes the first task of the list.
DeleteScanFirst(p) ==
    /\ pc[p] = "d_scan"
    /\ LET i == FindIndex(tasks, op[p].id)
       IN  IF i = 0
           THEN /\ result' = Set(result, p, Failure(ErrTaskNotFound))
                /\ pc' = Set(pc, p, "unlock")
                /\ UNCHANGED <<idx, cur>>
           ELSE /\ idx' = Set(idx, p, 1)
                /\ cur' = Set(cur, p, 1)
                /\ pc' = Set(pc, p, "d_shift")
                /\ result' = result
    /\ UNCHANGED <<store, mutex, op, task, clock, history, page>>

\* Delete: the loop over s.tasks up to the first match, or to its end.
DeleteScan(p) ==
    /\ pc[p] = "d_scan"
    /\ LET i == FindIndex(tasks, op[p].id)
       IN  IF i = 0
           THEN /\ result' = Set(result, p, Failure(ErrTaskNotFound))
                /\ pc' = Set(pc, p, "unlock")
                /\ UNCHANGED <<idx, cur>>
           ELSE /\ idx' = Set(idx, p, i)
                /\ cur' = Set(cur, p, i)
                /\ pc' = Set(pc, p, "d_shift")
                /\ result' = result
    /\ UNCHANGED <<store, mutex, op, task, clock, history, page>>

\* Delete that cuts the last element off without moving the tail down.
DeleteShiftDropLast(p) ==
    /\ pc[p] = "d_shift"
    /\ tasks' = SubSeq(tasks, 1, Len(tasks) - 1)
    /\ cur' = Set(cur, p, 0)
    /\ idx' = Set(idx, p, 0)
    /\ result' = Set(result, p, [task |-> ZeroTask, list |-> <<>>, err |-> NoErr])
    /\ pc' = Set(pc, p, "unlock")
    /\ UNCHANGED <<nextID, mutex, op, task, clock, history, page>>

\* Delete that reports success and leaves the list as it is.
DeleteShiftKeep(p) ==
    /\ pc[p] = "d_shift"
    /\ tasks' = tasks
    /\ cur' = Set(cur, p, 0)
    /\ idx' = Set(idx, p, 0)
    /\ result' = Set(result, p, [task |-> ZeroTask, list |-> <<>>, err |-> NoErr])
    /\ pc' = Set(pc, p, "unlock")
    /\ UNCHANGED <<nextID, mutex, op, task, clock, history, page>>

\* Delete: s.tasks = append(s.tasks[:i], s.tasks[i+1:]...). append moves the tail one
\* place down inside the same array, an element at a time, and only then is the
\* shorter slice stored in s.tasks.
DeleteShift(p) ==
    /\ pc[p] = "d_shift"
    /\ IF cur[p] < Len(tasks)
       THEN /\ tasks' = [tasks EXCEPT ![cur[p]] = tasks[cur[p] + 1]]
            /\ cur' = Set(cur, p, cur[p] + 1)
            /\ UNCHANGED <<pc, result, idx>>
       ELSE /\ tasks' = SubSeq(tasks, 1, Len(tasks) - 1)
            /\ cur' = Set(cur, p, 0)
            /\ idx' = Set(idx, p, 0)
            /\ result' = Set(result, p, [task |-> ZeroTask, list |-> <<>>, err |-> NoErr])
            /\ pc' = Set(pc, p, "unlock")
    /\ UNCHANGED <<nextID, mutex, op, task, clock, history, page>>

\* defer s.mu.Unlock(), and the return to the caller: the readers parked behind this
\* writer enter, the lock is free. The one-at-a-time store runs the same call.
Unlock(p) ==
    /\ pc[p] = "unlock"
    /\ wHolder' = 0
    /\ readers' = readers \cup blocked
    /\ blocked' = {}
    /\ pc' = Set(pc, p, "idle")
    /\ op' = Set(op, p, NoOp)
    /\ task' = Set(task, p, ZeroTask)
    /\ result' = Set(result, p, NoResult)
    /\ LET a == SeqApply(absTasks, absNext, op[p], clock)
       IN  /\ absTasks' = a.tasks
           /\ absNext' = a.next
    /\ createdIds' = IF op[p].kind = "Create" THEN Append(createdIds, result[p].task.id)
                     ELSE createdIds
    /\ deletedIds' = IF op[p].kind = "Delete" /\ result[p].err = NoErr
                     THEN deletedIds \cup {op[p].id} ELSE deletedIds
    /\ lastCreated' = IF op[p].kind = "Create" THEN result[p].task ELSE lastCreated
    /\ toggled' = IF op[p].kind = "Toggle" /\ result[p].err = NoErr
                  THEN (toggled \ {op[p].id}) \cup ({op[p].id} \ toggled)
                  ELSE IF op[p].kind = "Delete" THEN toggled \ {op[p].id}
                  ELSE toggled
    /\ UNCHANGED <<store, idx, cur, clock, page>>

\* ------------------------------------------------------- the read methods

ReadBody(kind) ==
    CASE kind = "GetAll" -> "g_make"
      [] kind = "GetByID" -> "b_scan"

\* s.mu.RLock(): enter, or park until the writer that is ahead has unlocked.
RLock(p) ==
    /\ pc[p] = "rlock"
    /\ IF CanRLock
       THEN /\ readers' = readers \cup {p}
            /\ pc' = Set(pc, p, ReadBody(op[p].kind))
            /\ blocked' = blocked
       ELSE /\ blocked' = blocked \cup {p}
            /\ pc' = Set(pc, p, "rblocked")
            /\ readers' = readers
    /\ UNCHANGED <<store, wHolder, op, locals, result, clock, history, page>>

\* A parked reader runs again once the writer's Unlock has let it in.
RWake(p) ==
    /\ pc[p] = "rblocked"
    /\ p \in readers
    /\ pc' = Set(pc, p, ReadBody(op[p].kind))
    /\ UNCHANGED <<store, mutex, op, locals, result, clock, history, page>>

\* GetAll that allocates one element too few, so that the newest task is left out.
GetAllMakeShort(p) ==
    /\ pc[p] = "g_make"
    /\ cur' = Set(cur, p, IF Len(tasks) > 0 THEN Len(tasks) - 1 ELSE 0)
    /\ pc' = Set(pc, p, "g_copy")
    /\ UNCHANGED <<store, mutex, op, task, idx, result, clock, history, page>>

\* GetAll: tasksCopy := make([]model.Task, len(s.tasks))
GetAllMake(p) ==
    /\ pc[p] = "g_make"
    /\ cur' = Set(cur, p, Len(tasks))
    /\ pc' = Set(pc, p, "g_copy")
    /\ UNCHANGED <<store, mutex, op, task, idx, result, clock, history, page>>

\* GetAll that returns the tasks in reverse order.
GetAllCopyReversed(p) ==
    /\ pc[p] = "g_copy"
    /\ result' = Set(result, p,
            [task |-> ZeroTask,
             list |-> [i \in 1..cur[p] |->
                          IF cur[p] + 1 - i <= Len(tasks) THEN tasks[cur[p] + 1 - i] ELSE ZeroTask],
             err |-> NoErr])
    /\ cur' = Set(cur, p, 0)
    /\ pc' = Set(pc, p, "runlock")
    /\ UNCHANGED <<store, mutex, op, task, idx, clock, history, page>>

\* GetAll: copy(tasksCopy, s.tasks); return tasksCopy
GetAllCopy(p) ==
    /\ pc[p] = "g_copy"
    /\ result' = Set(result, p,
            [task |-> ZeroTask,
             list |-> [i \in 1..cur[p] |-> IF i <= Len(tasks) THEN tasks[i] ELSE ZeroTask],
             err |-> NoErr])
    /\ cur' = Set(cur, p, 0)
    /\ pc' = Set(pc, p, "runlock")
    /\ UNCHANGED <<store, mutex, op, task, idx, clock, history, page>>

\* GetByID: the loop over s.tasks; return task, nil or model.Task{}, ErrTaskNotFound
GetByIDScan(p) ==
    /\ pc[p] = "b_scan"
    /\ LET i == FindIndex(tasks, op[p].id)
       IN  result' = Set(result, p,
                IF i = 0 THEN [task |-> ZeroTask, list |-> <<>>, err |-> ErrTaskNotFound]
                ELSE [task |-> tasks[i], list |-> <<>>, err |-> NoErr])
    /\ pc' = Set(pc, p, "runlock")
    /\ UNCHANGED <<store, mutex, op, locals, clock, history, page>>

\* defer s.mu.RUnlock(), and the return to the caller.
RUnlock(p) ==
    /\ pc[p] = "runlock"
    /\ readers' = readers \ {p}
    /\ pc' = Set(pc, p, "idle")
    /\ op' = Set(op, p, NoOp)
    /\ result' = Set(result, p, NoResult)
    /\ UNCHANGED <<store, wHolder, blocked, locals, clock, history, page>>

\* ------------------------------------------------------------------- Next

Next ==
    \E p \in Procs :
        \/ SvcCreate(p) \/ SvcReturn(p) \/ StartWrite(p) \/ StartRead(p)
        \/ Lock(p) \/ Drain(p)
        \/ CreateBuild(p) \/ CreateAppend(p) \/ CreateInc(p)
        \/ ToggleScan(p) \/ ToggleFlip(p)
        \/ DeleteScan(p) \/ DeleteShift(p)
        \/ Unlock(p)
        \/ RLock(p) \/ RWake(p)
        \/ GetAllMake(p) \/ GetAllCopy(p) \/ GetByIDScan(p)
        \/ RUnlock(p)

Spec == Init /\ [][Next]_vars

\* ------------------------------------------- the caller of GetAll and its slice

\* ------------------------------------------ the service and the API handler
\* What the caller of a store method makes of its return. An error is the chain of
\* errors errors.Unwrap walks, the outermost first, each written as its text; nil
\* is the empty chain.

\* The error a store method or a validation returned, as a chain.
Chain(err) == IF err = NoErr THEN <<>> ELSE <<err>>

\* fmt.Errorf with %v: the text of the error is kept, the error itself is not.
ErrorfV(msg, e) == << msg \o ": " \o e[1] >>

\* fmt.Errorf(msg + ": %w", e): a new error that wraps e.
Errorf(msg, e) == << msg \o ": " \o e[1] >> \o e

\* A comparison of the outermost error only: err == target.
ErrorsIsOutermost(e, target) == e # <<>> /\ e[1] = target

\* errors.Is(e, target): some error of the chain is target.
ErrorsIs(e, target) == \E i \in 1..Len(e) : e[i] = target

\* TaskService.Toggle, after s.store.Toggle has returned res.
ServiceToggle(res) ==
    IF res.err # NoErr
    THEN [task |-> ZeroTask, err |-> Errorf("failed to toggle task", Chain(res.err))]
    ELSE [task |-> res.task, err |-> <<>>]

\* TaskService.Delete, after s.store.Delete has returned res.
ServiceDelete(res) ==
    IF res.err # NoErr
    THEN [task |-> ZeroTask, err |-> Errorf("failed to delete task", Chain(res.err))]
    ELSE [task |-> ZeroTask, err |-> <<>>]

\* TaskService.Create: its own validation error, or what s.store.Create returned.
ServiceCreate(res) == [task |-> res.task, err |-> Chain(res.err)]

StatusOK == 200
StatusCreated == 201
StatusBadRequest == 400
StatusNotFound == 404
StatusInternalServerError == 500

\* respondError and respondJSON: the status, the error code and the task of the body.
RespondError(code, status) == [status |-> status, code |-> code, task |-> ZeroTask]
RespondJSON(data, status) == [status |-> status, code |-> "", task |-> data]

\* The handler that knows the two title errors only.
CreateTaskTitleOnly(svc) ==
    IF svc.err # <<>>
    THEN IF ErrorsIs(svc.err, ErrEmptyTitle) \/ ErrorsIs(svc.err, ErrTitleTooLong)
         THEN RespondError("INVALID_INPUT", StatusBadRequest)
         ELSE RespondError("INTERNAL_SERVER_ERROR", StatusInternalServerError)
    ELSE RespondJSON(svc.task, StatusCreated)

\* APIHandler.CreateTask, after h.service.Create has returned svc.
CreateTask(svc) ==
    IF svc.err # <<>>
    THEN IF ErrorsIs(svc.err, ErrEmptyTitle) \/ ErrorsIs(svc.err, ErrTitleTooLong)
         THEN RespondError("INVALID_INPUT", StatusBadRequest)
         ELSE IF ErrorsIs(svc.err, ErrInvalidPriority)
         THEN RespondError("INVALID_INPUT", StatusBadRequest)
         ELSE IF ErrorsIs(svc.err, ErrInvalidColor)
         THEN RespondError("INVALID_INPUT", StatusBadRequest)
         ELSE RespondError("INTERNAL_SERVER_ERROR", StatusInternalServerError)
    ELSE RespondJSON(svc.task, StatusCreated)

\* APIHandler.ToggleTask, after h.service.Toggle has returned svc.
ToggleTask(svc) ==
    IF svc.err # <<>>
    THEN IF ErrorsIs(svc.err, ErrTaskNotFound)
         THEN RespondError("NOT_FOUND", StatusNotFound)
         ELSE RespondError("INTERNAL_SERVER_ERROR", StatusInternalServerError)
    ELSE RespondJSON(svc.task, StatusOK)

\* APIHandler.DeleteTask, after h.service.Delete has returned svc.
DeleteTask(svc) ==
    IF svc.err # <<>>
    THEN IF ErrorsIs(svc.err, ErrTaskNotFound)
         THEN RespondError("NOT_FOUND", StatusNotFound)
         ELSE RespondError("INTERNAL_SERVER_ERROR", StatusInternalServerError)
    ELSE RespondJSON(ZeroTask, StatusOK)

\* What TaskService returns to the handler for the call o, given what the store
\* method (or the validation of Create) returned.
ServiceReturn(o, res) ==
    CASE o.kind = "Create" -> ServiceCreate(res)
      [] o.kind = "Toggle" -> ServiceToggle(res)
      [] o.kind = "Delete" -> ServiceDelete(res)

\* The answer of the API to the request that made the call o.
Response(o, res) ==
    CASE o.kind = "Create" -> CreateTask(ServiceReturn(o, res))
      [] o.kind = "Toggle" -> ToggleTask(ServiceReturn(o, res))
      [] o.kind = "Delete" -> DeleteTask(ServiceReturn(o, res))

\* GetAll that returns s.tasks itself.
GetAllSharesArrayYes == TRUE

\* tasksCopy := make([]model.Task, len(s.tasks)); copy(tasksCopy, s.tasks): the slice
\* GetAll returns has an array of its own, and a model.Task holds no pointer, so no
\* memory of the store can be reached through it.
GetAllSharesArray == FALSE

\* The ways a caller may write to a slice it holds.
MutationKinds == {"change", "replace", "remove"}

\* The slice l after the caller has changed fields of element i, put another task in
\* its place, or cut it out with append(l[:i], l[i+1:]...).
Mutated(l, kind, i) ==
    CASE kind = "change" -> [l EXCEPT ![i].title = <<"x">>, ![i].completed = ~l[i].completed]
      [] kind = "replace" -> [l EXCEPT ![i] = ZeroTask]
      [] kind = "remove" -> SubSeq(l, 1, i - 1) \o SubSeq(l, i + 1, Len(l))

\* The elements of an array of n cells after the same writes: cutting an element
\* out moves the later ones down and leaves the last cell as it was.
Written(a, kind, i) ==
    CASE kind = "change" -> [a EXCEPT ![i].title = <<"x">>, ![i].completed = ~a[i].completed]
      [] kind = "replace" -> [a EXCEPT ![i] = ZeroTask]
      [] kind = "remove" -> [j \in 1..Len(a) |-> IF j >= i /\ j < Len(a) THEN a[j + 1] ELSE a[j]]

\* GetAll returns (the deferred RUnlock runs) and the caller keeps the slice.
KeepSlice(p) ==
    /\ pc[p] = "runlock"
    /\ op[p].kind = "GetAll"
    /\ readers' = readers \ {p}
    /\ pc' = Set(pc, p, "g_held")
    /\ UNCHANGED <<store, wHolder, blocked, op, locals, result, clock, history, page>>

\* The caller writes to the slice it holds; the writes land in s.tasks too if the
\* slice shares its array.
CallerMutate(p) ==
    /\ pc[p] = "g_held"
    /\ \E kind \in MutationKinds, i \in 1..Len(result[p].list) :
          /\ result' = Set(result, p, [result[p] EXCEPT !.list = Mutated(@, kind, i)])
          /\ tasks' = IF GetAllSharesArray /\ i <= Len(tasks) THEN Written(tasks, kind, i) ELSE tasks
    /\ pc' = Set(pc, p, "g_mutated")
    /\ UNCHANGED <<nextID, mutex, op, locals, clock, history, page>>

\* The caller lets go of the slice.
CallerDrop(p) ==
    /\ pc[p] \in {"g_held", "g_mutated"}
    /\ pc' = Set(pc, p, "idle")
    /\ op' = Set(op, p, NoOp)
    /\ result' = Set(result, p, NoResult)
    /\ UNCHANGED <<store, mutex, locals, clock, history, page>>

\* The goroutine of the runs in which one request is served at a time.
Solo == 1

\* A request to create a task arrives while no other request runs.
SoloCreate ==
    /\ nextID + CreatesInFlight <= MaxID
    /\ \E t \in SoloTitleInputs, priority \in SoloPriorityInputs, color \in SoloColorInputs :
            SvcCreateCall(Solo, t, priority, color)

\* One goroutine serves the requests one after the other; a lone reader never parks.
SoloNext ==
    \/ SoloCreate \/ SvcReturn(Solo) \/ StartWrite(Solo) \/ StartRead(Solo)
    \/ Lock(Solo) \/ Drain(Solo)
    \/ CreateBuild(Solo) \/ CreateAppend(Solo) \/ CreateInc(Solo)
    \/ ToggleScan(Solo) \/ ToggleFlip(Solo)
    \/ DeleteScan(Solo) \/ DeleteShift(Solo)
    \/ Unlock(Solo)
    \/ RLock(Solo)
    \/ GetAllMake(Solo) \/ GetAllCopy(Solo) \/ GetByIDScan(Solo)
    \/ RUnlock(Solo)
    \/ KeepSlice(Solo) \/ CallerMutate(Solo) \/ CallerDrop(Solo)

SoloSpec == Init /\ [][SoloNext]_vars

\* The priorities and colours of the palette: each of the five markers and each of
\* the seven colours.
PalettePriorityInputs ==
    {PriorityUrgentImportant, PriorityImportant, PriorityUrgent, PriorityLow, PriorityDefault}
PaletteColorInputs ==
    {ColorRed, ColorBlue, ColorYellow, ColorGreen, ColorPurple, ColorOrange, ColorGrey}

\* A request to create a task with a marker and a colour of the palette arrives
\* while no other request runs.
PaletteCreate ==
    /\ nextID + CreatesInFlight <= MaxPaletteTasks
    /\ \E priority \in PalettePriorityInputs, color \in PaletteColorInputs :
            SvcCreateCall(Solo, <<"a">>, priority, color)

\* One goroutine serves requests that use the whole palette, one after the other.
PaletteNext ==
    \/ PaletteCreate \/ StartWrite(Solo) \/ StartRead(Solo)
    \/ Lock(Solo) \/ Drain(Solo)
    \/ CreateBuild(Solo) \/ CreateAppend(Solo) \/ CreateInc(Solo)
    \/ ToggleScan(Solo) \/ ToggleFlip(Solo)
    \/ DeleteScan(Solo) \/ DeleteShift(Solo)
    \/ Unlock(Solo)
    \/ RLock(Solo)
    \/ GetAllMake(Solo) \/ GetAllCopy(Solo) \/ GetByIDScan(Solo)
    \/ RUnlock(Solo)

PaletteSpec == Init /\ [][PaletteNext]_vars


\* ----------------------------------------------- the page (tasks controller)

\* The data-priority values of the five filter buttons of index.html.
FilterButtons ==
    {PriorityUrgentImportant, PriorityImportant, PriorityUrgent, PriorityLow, PriorityDefault}

\* index.html, {{range .Tasks}}: one <li> per task, with its data-task-id and its
\* data-priority, and without the class d-none.
RenderRows(ts) ==
    [i \in 1..Len(ts) |-> [id |-> ts[i].id, priority |-> ts[i].priority, dnone |-> FALSE]]

\* The rows left when row i is taken out of the list.
WithoutRow(rows, i) == SubSeq(rows, 1, i - 1) \o SubSeq(rows, i + 1, Len(rows))

\* A filter that shows a row only when every active filter matches it.
applyFiltersAll(filters, rows) ==
    [i \in 1..Len(rows) |-> [rows[i] EXCEPT !.dnone = ~(filters \subseteq {rows[i].priority})]]

\* applyFilters(), the loop over the rows: a row loses d-none if no filter is active
\* or its data-priority is an active filter, and gets d-none otherwise.
applyFilters(filters, rows) ==
    [i \in 1..Len(rows) |->
        [rows[i] EXCEPT !.dnone = ~(filters = {} \/ rows[i].priority \in filters)]]

\* applyFilters(), visibleCount: the rows the loop has shown.
visibleCount(rows) == Cardinality({i \in 1..Len(rows) : ~rows[i].dnone})

\* applyFilters(), countText.
countText(filters, rows) ==
    IF Cardinality(filters) > 0
    THEN <<"Showing", visibleCount(rows), "of", Len(rows), "tasks">>
    ELSE <<"Showing", Len(rows), "tasks">>

\* The clicks are taken while no request of the page is running.
PageIdle == pc[Solo] = "idle"

\* filterByPriority(event), event.target being the button with data-priority
\* `priority`: the filter is taken out if it is active and put in if it is not, the
\* button's class follows, and applyFilters() runs.
filterByPriority(priority) ==
    /\ PageIdle
    /\ IF priority \in activeFilters
       THEN /\ activeFilters' = activeFilters \ {priority}
            /\ activeButtons' = activeButtons \ {priority}
       ELSE /\ activeFilters' = activeFilters \cup {priority}
            /\ activeButtons' = activeButtons \cup {priority}
    /\ listItems' = applyFilters(activeFilters', listItems)
    /\ taskCount' = countText(activeFilters', listItems')
    /\ UNCHANGED <<store, mutex, pc, op, locals, result, clock, history>>

\* A click on one of the five filter buttons.
ClickFilter == \E priority \in FilterButtons : filterByPriority(priority)

\* clearFilters(), the Show All button: the set is cleared, no button stays active,
\* and applyFilters() runs.
clearFilters ==
    /\ PageIdle
    /\ activeFilters' = {}
    /\ activeButtons' = {}
    /\ listItems' = applyFilters(activeFilters', listItems)
    /\ taskCount' = countText(activeFilters', listItems')
    /\ UNCHANGED <<store, mutex, pc, op, locals, result, clock, history>>

\* The most tasks the runs of the page create.
MaxFilterTasks == 2

\* create(event): the form posts a title and the marker of the selected radio
\* button; the service puts the default colour in.
PageCreate ==
    /\ nextID + CreatesInFlight <= MaxFilterTasks
    /\ \E priority \in FilterButtons : SvcCreateCall(Solo, <<"a">>, priority, "")

\* GET /: PageHandler.ServeTaskList calls h.service.GetAll().
PageRequest ==
    /\ pc[Solo] = "idle"
    /\ op' = Set(op, Solo, StoreOp("GetAll", ""))
    /\ pc' = Set(pc, Solo, "rlock")
    /\ UNCHANGED <<store, mutex, locals, result, clock, history, page>>

\* GetAll returns (the deferred RUnlock runs), ServeTaskList executes index.html
\* with the tasks, and the browser shows the new page: a new controller, whose
\* activeFilters is empty, no active button, every row shown.
ServeTaskList ==
    /\ pc[Solo] = "runlock"
    /\ op[Solo].kind = "GetAll"
    /\ readers' = readers \ {Solo}
    /\ pc' = Set(pc, Solo, "idle")
    /\ op' = Set(op, Solo, NoOp)
    /\ result' = Set(result, Solo, NoResult)
    /\ activeFilters' = {}
    /\ activeButtons' = {}
    /\ listItems' = RenderRows(result[Solo].list)
    /\ taskCount' = <<"Showing", Len(result[Solo].list), "tasks">>
    /\ UNCHANGED <<store, wHolder, blocked, locals, clock, history>>

\* delete(event) on a row of the list: DELETE /api/tasks/{id} with the row's id.
PageDelete ==
    /\ pc[Solo] = "idle"
    /\ \E i \in 1..Len(listItems) : op' = Set(op, Solo, StoreOp("Delete", listItems[i].id))
    /\ pc' = Set(pc, Solo, "lock")
    /\ UNCHANGED <<store, mutex, locals, result, clock, history, page>>

\* delete(event), after the response was ok: listItem.remove(). The other rows, the
\* filters and the count text stay as they are.
RemoveRow ==
    /\ PageIdle
    /\ \E i \in 1..Len(listItems) :
          /\ listItems[i].id \in deletedIds
          /\ listItems' = WithoutRow(listItems, i)
    /\ UNCHANGED <<store, mutex, pc, op, locals, result, clock, history,
                   activeFilters, activeButtons, taskCount>>

\* The page in one browser, its requests served one after the other.
FilterNext ==
    \/ PageCreate \/ PageRequest \/ PageDelete
    \/ Lock(Solo) \/ Drain(Solo)
    \/ CreateBuild(Solo) \/ CreateAppend(Solo) \/ CreateInc(Solo)
    \/ DeleteScan(Solo) \/ DeleteShift(Solo)
    \/ Unlock(Solo)
    \/ RLock(Solo)
    \/ GetAllMake(Solo) \/ GetAllCopy(Solo)
    \/ ServeTaskList \/ RemoveRow
    \/ ClickFilter \/ clearFilters

FilterSpec == Init /\ [][FilterNext]_vars


\* ------------------------------------------- a caller that keeps a snapshot

\* The goroutine that calls GetAll and keeps what it returned.
Holder == 2

\* The elements read through a slice that is s.tasks of the moment GetAll returned:
\* the cells of the store's array.
HeldCellsOfStore(p) ==
    [j \in 1..Len(result[p].list) |-> IF j <= Len(tasks) THEN tasks[j] ELSE result[p].list[j]]

\* The elements a caller reads through the slice GetAll returned to it: those of the
\* array make() allocated and copy() filled, which is another array than the
\* store's.
HeldCells(p) ==
    IF GetAllSharesArray THEN HeldCellsOfStore(p) ELSE result[p].list

\* The holder asks for GetAll.
HolderGetAll ==
    /\ pc[Holder] = "idle"
    /\ op' = Set(op, Holder, StoreOp("GetAll", ""))
    /\ pc' = Set(pc, Holder, "rlock")
    /\ UNCHANGED <<store, mutex, locals, result, clock, history, page>>

\* One goroutine writes to the store while another calls GetAll and keeps the
\* slice across the writes.
SnapshotNext ==
    \/ SvcCreate(Solo) \/ SvcReturn(Solo) \/ StartWrite(Solo)
    \/ Lock(Solo) \/ Drain(Solo)
    \/ CreateBuild(Solo) \/ CreateAppend(Solo) \/ CreateInc(Solo)
    \/ ToggleScan(Solo) \/ ToggleFlip(Solo)
    \/ DeleteScan(Solo) \/ DeleteShift(Solo)
    \/ Unlock(Solo)
    \/ HolderGetAll
    \/ RLock(Holder) \/ RWake(Holder)
    \/ GetAllMake(Holder) \/ GetAllCopy(Holder)
    \/ KeepSlice(Holder) \/ CallerDrop(Holder)

SnapshotSpec == Init /\ [][SnapshotNext]_vars

\* The steps goroutine p takes once its call has started.
Progress(p) ==
    \/ SvcReturn(p) \/ Lock(p) \/ Drain(p)
    \/ CreateBuild(p) \/ CreateAppend(p) \/ CreateInc(p)
    \/ ToggleScan(p) \/ ToggleFlip(p)
    \/ DeleteScan(p) \/ DeleteShift(p)
    \/ Unlock(p)
    \/ RLock(p) \/ RWake(p)
    \/ GetAllMake(p) \/ GetAllCopy(p) \/ GetByIDScan(p)
    \/ RUnlock(p)

\* The Go scheduler runs every runnable goroutine again (weak fairness of each
\* goroutine's steps), and sync.Mutex hands the lock to a writer that keeps waiting
\* for it (its starvation mode: strong fairness of Lock). No request has to arrive.
FairSpec ==
    /\ Spec
    /\ \A p \in Procs : WF_vars(Progress(p)) /\ SF_vars(Lock(p))

\* ------------------------------------------------------- state predicates

\* p is between s.mu.Lock() and the deferred s.mu.Unlock().
WriterInside(p) ==
    pc[p] \in {"c_build", "c_append", "c_inc", "t_scan", "t_flip", "d_scan", "d_shift", "unlock"}

\* p is between s.mu.RLock() and the deferred s.mu.RUnlock().
ReaderInside(p) == pc[p] \in {"g_make", "g_copy", "b_scan", "runlock"}

NoWriterInside == \A p \in Procs : ~WriterInside(p)

Ids(ts) == { ts[i].id : i \in 1..Len(ts) }

Distinct(seq) == \A i, j \in 1..Len(seq) : i # j => seq[i] # seq[j]

\* ------------------------------------------------------------------ claims

\* C1: whenever no Delete is in the middle of moving elements, the ids of the stored
\* tasks are pairwise distinct; and no two Create calls that have returned were
\* given the same id.
C1_UniqueIds ==
    /\ (\A p \in Procs : pc[p] # "d_shift") => Distinct([i \in 1..Len(tasks) |-> tasks[i].id])
    /\ Distinct(createdIds)

\* Two Creates have returned, one task was toggled, another was deleted, and the
\* store is at rest.
C1_Witness ==
    /\ NoWriterInside
    /\ Len(createdIds) = 2
    /\ deletedIds # {}
    /\ \E i \in 1..Len(tasks) : tasks[i].completed

\* C2: an id is never reused: no stored task and no task a Create is building carries
\* the id of a deleted task, the id counter never decreases, and no step of a Delete
\* changes it.
C2_NoIdReuse ==
    /\ [](\A i \in 1..Len(tasks) : tasks[i].id \notin deletedIds)
    /\ [](\A p \in Procs : pc[p] \in {"c_append", "c_inc", "unlock"} /\ op[p].kind = "Create"
                               => task[p].id \notin deletedIds)
    /\ [][nextID' >= nextID]_vars
    /\ [][(\E p \in Procs : op[p].kind = "Delete" /\ pc'[p] # pc[p]) => nextID' = nextID]_vars

\* A Create is about to return a task although an earlier task has been deleted.
C2_Witness ==
    \E p \in Procs :
        /\ pc[p] = "unlock"
        /\ op[p].kind = "Create"
        /\ deletedIds # {}
        /\ Len(tasks) = 1

\* C3: whenever no writer is inside the store, no Create has been lost and no id was
\* handed out twice: the store holds one task for every Create that has returned,
\* less the deleted ones, the stored ids are pairwise distinct and are exactly the
\* returned ids that were not deleted, and the counter has advanced once per Create.
C3_ConcurrentCreates ==
    NoWriterInside =>
        /\ Len(tasks) + Cardinality(deletedIds) = Len(createdIds)
        /\ Cardinality(Ids(tasks)) = Len(tasks)
        /\ Ids(tasks) \cup deletedIds = { createdIds[i] : i \in 1..Len(createdIds) }
        /\ nextID = Len(createdIds) + 1

\* Two Create calls overlap: one has appended its task and is about to unlock while
\* the other waits for the lock.
C3_Witness ==
    \E p, q \in Procs :
        /\ p # q
        /\ op[p].kind = "Create" /\ pc[p] = "unlock"
        /\ op[q].kind = "Create" /\ pc[q] = "lock"

\* C4: at every moment at most one writer is inside its critical section, and when
\* one is, no reader is inside its own.
C4_MutualExclusion ==
    LET W == { p \in Procs : WriterInside(p) }
        R == { p \in Procs : ReaderInside(p) }
    IN  /\ Cardinality(W) <= 1
        /\ W # {} => R = {}

\* A writer is in the middle of Delete's shift while a reader is parked in RLock.
C4_Witness ==
    \E p, q \in Procs :
        /\ pc[p] = "d_shift" /\ cur[p] > idx[p]
        /\ pc[q] = "rblocked"

\* C5: what GetAll or GetByID is about to return is the answer of the one-at-a-time
\* store, whose list changes only when a whole write has completed: GetAll returns
\* exactly that list, every record in it complete and no id twice, and GetByID
\* returns the task of that list with the id asked for, or not-found.
C5_ReadersSeeWholeWrites ==
    \A p \in Procs :
        pc[p] = "runlock" =>
            IF op[p].kind = "GetAll"
            THEN /\ result[p].list = absTasks
                 /\ \A i \in 1..Len(result[p].list) : result[p].list[i].id # ""
                 /\ Distinct([i \in 1..Len(result[p].list) |-> result[p].list[i].id])
                 /\ result[p].err = NoErr
            ELSE result[p] = SeqGetByID(absTasks, op[p].id)

\* GetAll is about to return two tasks, one of them toggled, while a Delete waits
\* for the readers to leave.
C5_Witness ==
    \E p, q \in Procs :
        /\ pc[p] = "runlock" /\ op[p].kind = "GetAll"
        /\ Len(result[p].list) = 2
        /\ \E i \in 1..2 : result[p].list[i].completed
        /\ pc[q] = "drain" /\ op[q].kind = "Delete"

\* C6: the lock is held only by calls in progress: the write lock by a goroutine
\* between Lock and Unlock, the read lock by goroutines between RLock and RUnlock,
\* and only goroutines inside RLock are parked; so when no call is in progress the
\* lock is free, whatever the earlier calls returned.
C6_LockReleased ==
    /\ wHolder # 0 => (pc[wHolder] = "drain" \/ WriterInside(wHolder))
    /\ \A p \in readers : ReaderInside(p) \/ pc[p] = "rblocked"
    /\ \A p \in blocked : pc[p] = "rblocked"
    /\ (\A p \in Procs : pc[p] \in {"idle", "svcRet"}) =>
            wHolder = 0 /\ readers = {} /\ blocked = {}

\* A Toggle or Delete that found no task is about to return while another writer
\* waits for the lock.
C6_Witness ==
    \E p, q \in Procs :
        /\ pc[p] = "unlock" /\ result[p].err = ErrTaskNotFound
        /\ pc[q] = "lock"

\* C7: under fair scheduling every call that has started returns: a goroutine that
\* is inside Create, Toggle, Delete, GetAll or GetByID (waiting for the lock
\* included) is eventually idle again.
C7_EveryCallReturns == \A p \in Procs : (pc[p] # "idle") ~> (pc[p] = "idle")

\* A writer waits for a reader that is inside, i.e. a call is waiting for the lock.
C7_Witness ==
    \E p, q \in Procs :
        /\ pc[p] = "drain"
        /\ ReaderInside(q)

\* C8: readers do not wait for each other: a goroutine calling RLock while no writer
\* holds or has asked for the lock can enter at once, however many readers are
\* inside, and a reader is parked only behind a writer.
C8_ReadersShare ==
    /\ \A p \in Procs :
          (pc[p] = "rlock" /\ wHolder = 0) => ENABLED (RLock(p) /\ p \in readers')
    /\ blocked # {} => wHolder # 0

\* Two readers are inside their critical sections at the same time.
C8_Witness ==
    \E p, q \in Procs :
        /\ p # q
        /\ ReaderInside(p) /\ ReaderInside(q)
        /\ {p, q} \subseteq readers

\* C9: every concurrent run is a run of the one-at-a-time store, which executes each
\* call in one step at the moment that call unlocks (a moment inside the call, so
\* calls that do not overlap keep their order): what a call is about to return is
\* what the one-at-a-time store returns for it, the list and the counter a writer
\* leaves are the ones the one-at-a-time store computes, and whenever no writer is
\* inside, the store equals the one-at-a-time store.
C9_Linearizable ==
    /\ \A p \in Procs :
          pc[p] = "unlock" =>
              LET a == SeqApply(absTasks, absNext, op[p], clock)
              IN  result[p] = a.res /\ tasks = a.tasks /\ nextID = a.next
    /\ \A p \in Procs :
          pc[p] = "runlock" => result[p] = SeqApply(absTasks, absNext, op[p], clock).res
    /\ NoWriterInside => (tasks = absTasks /\ nextID = absNext)

\* A Delete that removed the first of two tasks is about to return while another
\* call waits for the lock.
C9_Witness ==
    \E p, q \in Procs :
        /\ pc[p] = "unlock" /\ op[p].kind = "Delete" /\ result[p].err = NoErr
        /\ Len(absTasks) = 2 /\ absTasks[1].id = op[p].id
        /\ pc[q] \in {"lock", "rblocked"}

\* A title without a single non-space character (the empty title included).
AllSpace(s) == \A i \in 1..Len(s) : IsSpace(s[i])

\* C10: a TaskService.Create call whose title is empty or all whitespace returns
\* ErrEmptyTitle with the zero task, and from the call to its return neither the
\* task list nor the id counter changes.
C10_EmptyTitleRejected ==
    [][\A p \in Procs :
          /\ (pc[p] = "idle" /\ op'[p].kind = "Create" /\ AllSpace(op'[p].title)) =>
                /\ pc'[p] = "svcRet"
                /\ result'[p].err = ErrEmptyTitle
                /\ result'[p].task = ZeroTask
                /\ tasks' = tasks /\ nextID' = nextID
          /\ (pc[p] = "svcRet" /\ pc'[p] # "svcRet") =>
                (pc'[p] = "idle" /\ tasks' = tasks /\ nextID' = nextID)
      ]_vars

\* Create was called with a title of a tab and a space on a store that holds a task,
\* and is about to return ErrEmptyTitle.
C10_Witness ==
    \E p \in Procs :
        /\ pc[p] = "svcRet"
        /\ op[p].title = <<"\t", " ">>
        /\ result[p].err = ErrEmptyTitle
        /\ Len(tasks) >= 1

\* C11: TaskService.Create returns ErrTitleTooLong exactly when the trimmed title is
\* longer than 255 bytes (len of the Go string): the call then returns the zero task
\* and leaves the task list and the id counter as they were; a trimmed title of
\* exactly 255 bytes passes the title checks, and with an accepted priority and
\* colour the call goes on to the store and returns a task with that title.
C11_TitleTooLongOver255 ==
    /\ [][\A p \in Procs :
            /\ (pc[p] = "idle" /\ op'[p].kind = "Create") =>
                  LET n == ByteLen(TrimSpace(op'[p].title))
                  IN  /\ (pc'[p] = "svcRet" /\ result'[p].err = ErrTitleTooLong)
                            <=> n > MaxTitleLen
                      /\ n > MaxTitleLen =>
                            (result'[p].task = ZeroTask /\ tasks' = tasks /\ nextID' = nextID)
                      /\ n = MaxTitleLen =>
                            result'[p].err \notin {ErrTitleTooLong, ErrEmptyTitle}
                      /\ (/\ n = MaxTitleLen
                          /\ op'[p].priority \in {"", PriorityUrgentImportant}
                          /\ op'[p].color \in {"", ColorRed}) => pc'[p] = "lock"
            /\ (pc[p] = "svcRet" /\ pc'[p] # "svcRet") =>
                  (pc'[p] = "idle" /\ tasks' = tasks /\ nextID' = nextID)
       ]_vars
    /\ [](\A p \in Procs :
            (pc[p] = "unlock" /\ op[p].kind = "Create") =>
                /\ result[p].err = NoErr
                /\ result[p].task.title = op[p].title
                /\ ByteLen(op[p].title) <= MaxTitleLen)

\* A title of 256 bytes is about to be rejected by a store that holds a task whose
\* title is exactly 255 bytes long.
C11_Witness ==
    \E p \in Procs :
        /\ pc[p] = "svcRet"
        /\ result[p].err = ErrTitleTooLong
        /\ ByteLen(op[p].title) = MaxTitleLen + 1
        /\ \E i \in 1..Len(tasks) : ByteLen(tasks[i].title) = MaxTitleLen

AllowedPriorities == {"U+1F525", "U+2B50", "U+26A1", "U+1F4A1", "U+1F4CB"}
AllowedColors == {"#dc3545", "#0d6efd", "#ffc107", "#28a745", "#6f42c1", "#fd7e14", "#6c757d"}

\* The trimmed title passes both title checks.
TitleAccepted(t) == ~AllSpace(t) /\ ByteLen(TrimSpace(t)) <= MaxTitleLen

FirstViolation(t, priority, color) ==
    IF AllSpace(t) THEN ErrEmptyTitle
    ELSE IF ByteLen(TrimSpace(t)) > MaxTitleLen THEN ErrTitleTooLong
    ELSE IF priority \notin AllowedPriorities \cup {""} THEN ErrInvalidPriority
    ELSE IF color \notin AllowedColors \cup {""} THEN ErrInvalidColor
    ELSE NoErr

StoredTitleOk(t) ==
    /\ t # <<>>
    /\ ~IsSpace(t[1]) /\ ~IsSpace(t[Len(t)])
    /\ ByteLen(t) <= MaxTitleLen

\* C17: at every moment the title of every stored task, and of every task a Create,
\* Toggle, GetByID or GetAll is about to return, is not empty, has no leading or
\* trailing white space and is at most 255 bytes long.
C17_StoredTitlesValid ==
    /\ \A i \in 1..Len(tasks) : StoredTitleOk(tasks[i].title)
    /\ \A p \in Procs :
          pc[p] \in {"unlock", "runlock"} =>
              /\ result[p].task # ZeroTask => StoredTitleOk(result[p].task.title)
              /\ \A i \in 1..Len(result[p].list) : StoredTitleOk(result[p].list[i].title)

\* The store holds a task with a title of 255 bytes, and a Create is about to return
\* a second task with the title "a".
C17_Witness ==
    \E p \in Procs :
        /\ pc[p] = "unlock" /\ op[p].kind = "Create"
        /\ Len(tasks) = 2
        /\ ByteLen(tasks[1].title) = MaxTitleLen
        /\ tasks[2].title = <<"a">>

C19_OnlyCompletedChanges ==
    [][\A i \in 1..Len(tasks), j \in 1..Len(tasks') :
          tasks[i].id = tasks'[j].id =>
              /\ [tasks'[j] EXCEPT !.completed = tasks[i].completed] = tasks[i]
              /\ tasks'[j].completed # tasks[i].completed =>
                    \E p \in Procs :
                        /\ op[p].kind = "Toggle" /\ op[p].id = tasks[i].id
                        /\ pc[p] = "t_flip" /\ pc'[p] = "unlock"
      ]_vars

\* A Toggle of the second of two tasks that differ in title, priority and colour has
\* flipped it and is about to return; the first task is still not completed.
C19_Witness ==
    \E p \in Procs :
        /\ pc[p] = "unlock" /\ op[p].kind = "Toggle" /\ result[p].err = NoErr
        /\ Len(tasks) = 2
        /\ op[p].id = tasks[2].id
        /\ tasks[2].completed /\ ~tasks[1].completed
        /\ tasks[1].title # tasks[2].title
        /\ tasks[1].priority # tasks[2].priority
        /\ tasks[1].color # tasks[2].color

\* C20: the completed flag of a stored task is the parity of the number of Toggle
\* calls that have found it: false when created, flipped by each Toggle, so two
\* Toggles in a row, with no other call on the task between them, leave it as it
\* was. Each Toggle returns the stored task as it is after its own flip: with the
\* flag negated against what it was when the call took the lock.
C20_ToggleTwiceRestores ==
    /\ NoWriterInside =>
          \A i \in 1..Len(tasks) : tasks[i].completed <=> tasks[i].id \in toggled
    /\ \A p \in Procs :
          (pc[p] = "unlock" /\ op[p].kind = "Toggle" /\ result[p].err = NoErr) =>
              LET i == FindIndex(tasks, op[p].id)
              IN  /\ i # 0
                  /\ result[p].task = tasks[i]
                  /\ result[p].task.id = op[p].id
                  /\ result[p].task.completed <=> op[p].id \notin toggled

\* A Toggle of a task that an odd number of Toggles has flipped before is about to
\* return it not completed, as it was created, while a further Toggle of the same
\* task waits for the lock.
C20_Witness ==
    \E p, q \in Procs :
        /\ pc[p] = "unlock" /\ op[p].kind = "Toggle" /\ result[p].err = NoErr
        /\ op[p].id \in toggled
        /\ ~result[p].task.completed
        /\ pc[q] = "lock" /\ op[q].kind = "Toggle" /\ op[q].id = op[p].id

\* C21: a Toggle, Delete or GetByID about to return has failed exactly when no task
\* of the list it worked on carries its id; its error is then ErrTaskNotFound, its
\* task the zero task, and the task list and the id counter are as they were when
\* it took the lock. No other error ever comes out of these three methods, and no
\* error at all out of Create and GetAll.
C21_NotFoundOnly ==
    \A p \in Procs :
        /\ (pc[p] = "unlock" /\ op[p].kind \in {"Toggle", "Delete"}) =>
              /\ result[p].err \in {NoErr, ErrTaskNotFound}
              /\ result[p].err = ErrTaskNotFound <=> op[p].id \notin Ids(absTasks)
              /\ result[p].err = ErrTaskNotFound =>
                    (result[p].task = ZeroTask /\ tasks = absTasks /\ nextID = absNext)
        /\ (pc[p] = "runlock" /\ op[p].kind = "GetByID") =>
              /\ result[p].err \in {NoErr, ErrTaskNotFound}
              /\ result[p].err = ErrTaskNotFound <=> op[p].id \notin Ids(tasks)
              /\ result[p].err = ErrTaskNotFound => result[p].task = ZeroTask
              /\ tasks = absTasks /\ nextID = absNext
        /\ (pc[p] = "unlock" /\ op[p].kind = "Create") => result[p].err = NoErr
        /\ (pc[p] = "runlock" /\ op[p].kind = "GetAll") => result[p].err = NoErr

\* A Delete with an id that no Create has handed out yet is about to return
\* ErrTaskNotFound from a store that holds a task, while a Toggle waits for the lock.
C21_Witness ==
    \E p, q \in Procs :
        /\ pc[p] = "unlock" /\ op[p].kind = "Delete"
        /\ result[p].err = ErrTaskNotFound
        /\ Len(tasks) = 1
        /\ \A i \in 1..Len(createdIds) : createdIds[i] # op[p].id
        /\ pc[q] = "lock" /\ op[q].kind = "Toggle"

\* C22: a Delete about to return success has removed exactly the task with its id:
\* the list is one shorter than when the call took the lock, the id was in it and
\* is in it no more, and every other task is still there, unchanged. From then on
\* GetByID with that id is about to return ErrTaskNotFound and no GetAll returns a
\* task with it.
C22_DeleteRemovesOne ==
    \A p \in Procs :
        /\ (pc[p] = "unlock" /\ op[p].kind = "Delete" /\ result[p].err = NoErr) =>
              /\ Len(tasks) = Len(absTasks) - 1
              /\ op[p].id \in Ids(absTasks)
              /\ op[p].id \notin Ids(tasks)
              /\ \A i \in 1..Len(absTasks) :
                    absTasks[i].id # op[p].id => \E j \in 1..Len(tasks) : tasks[j] = absTasks[i]
        /\ (pc[p] = "runlock" /\ op[p].kind = "GetByID" /\ op[p].id \in deletedIds) =>
              result[p].err = ErrTaskNotFound
        /\ (pc[p] = "runlock" /\ op[p].kind = "GetAll") =>
              /\ Len(result[p].list) = Len(createdIds) - Cardinality(deletedIds)
              /\ \A i \in 1..Len(result[p].list) : result[p].list[i].id \notin deletedIds

\* A Delete of the second of two tasks that differ in title, priority and colour is
\* about to return success; the first, a completed task, is what is left.
C22_Witness ==
    \E p \in Procs :
        /\ pc[p] = "unlock" /\ op[p].kind = "Delete" /\ result[p].err = NoErr
        /\ Len(absTasks) = 2 /\ absTasks[2].id = op[p].id
        /\ absTasks[1].completed
        /\ absTasks[1].title # absTasks[2].title
        /\ absTasks[1].priority # absTasks[2].priority
        /\ absTasks[1].color # absTasks[2].color

\* C23: once a Delete of an id has returned success, that id stays deleted: every
\* Toggle, Delete and GetByID called with it is about to return ErrTaskNotFound,
\* no stored task carries it, and no Create, before or after, is given it again.
C23_DeletedStaysDeleted ==
    /\ [](\A p \in Procs :
            /\ (pc[p] = "unlock" /\ op[p].kind \in {"Toggle", "Delete"} /\ op[p].id \in deletedIds)
                  => result[p].err = ErrTaskNotFound
            /\ (pc[p] = "runlock" /\ op[p].kind = "GetByID" /\ op[p].id \in deletedIds)
                  => result[p].err = ErrTaskNotFound
            /\ (pc[p] = "unlock" /\ op[p].kind = "Create") => result[p].task.id \notin deletedIds)
    /\ [](\A i \in 1..Len(absTasks) : absTasks[i].id \notin deletedIds)
    /\ [][deletedIds \subseteq deletedIds']_vars

\* A Toggle of a deleted id is about to return ErrTaskNotFound from a store that
\* holds a task with a later id, while a Delete of the same id waits for the lock.
C23_Witness ==
    \E p, q \in Procs :
        /\ pc[p] = "unlock" /\ op[p].kind = "Toggle"
        /\ op[p].id \in deletedIds
        /\ result[p].err = ErrTaskNotFound
        /\ Len(tasks) = 1 /\ tasks[1].id = Itoa(2)
        /\ pc[q] = "lock" /\ op[q].kind = "Delete" /\ op[q].id = op[p].id

\* The number an id is the decimal writing of.
IdNumber(id) == CHOOSE n \in 0..(MaxID + 1) : Itoa(n) = id

\* The tasks of ts stand in the order of their creation: ids and creation times grow.
InCreationOrder(ts) ==
    \A i, j \in 1..Len(ts) :
        i < j => (IdNumber(ts[i].id) < IdNumber(ts[j].id) /\ ts[i].createdAt < ts[j].createdAt)

ValidationErrors == {ErrEmptyTitle, ErrTitleTooLong, ErrInvalidPriority, ErrInvalidColor}

\* C26: when TaskService.Toggle or TaskService.Delete is called with an id no stored
\* task carries, the error it returns is not nil, errors.Is finds ErrTaskNotFound in
\* it and none of the validation errors, and Toggle returns the zero task with it;
\* when the id is stored, the service returns no error.
C26_NotFoundPassedThrough ==
    \A p \in Procs :
        (pc[p] = "unlock" /\ op[p].kind \in {"Toggle", "Delete"}) =>
            LET svc == ServiceReturn(op[p], result[p])
            IN  IF op[p].id \in Ids(absTasks)
                THEN svc.err = <<>>
                ELSE /\ svc.err # <<>>
                     /\ ErrorsIs(svc.err, ErrTaskNotFound)
                     /\ \A e \in ValidationErrors : ~ErrorsIs(svc.err, e)
                     /\ svc.err # Chain(ErrTaskNotFound)
                     /\ svc.task = ZeroTask

\* The store's Toggle is about to return ErrTaskNotFound to TaskService.Toggle from
\* a store that holds one task, a completed one.
C26_Witness ==
    \E p \in Procs :
        /\ pc[p] = "unlock" /\ op[p].kind = "Toggle"
        /\ result[p].err = ErrTaskNotFound
        /\ Len(tasks) = 1 /\ tasks[1].completed

C28_ToggleDeleteStatus ==
    \A p \in Procs :
        (pc[p] = "unlock" /\ op[p].kind \in {"Toggle", "Delete"}) =>
            LET r == Response(op[p], result[p])
            IN  /\ r.status \in {200, 404}
                /\ r.status = 200 <=> op[p].id \in Ids(absTasks)
                /\ r.status = 404 => (r.code = "NOT_FOUND" /\ r.task = ZeroTask)
                /\ (r.status = 200 /\ op[p].kind = "Toggle") => r.task = result[p].task
                /\ r.status = 404 => ServiceReturn(op[p], result[p]).err # Chain(ErrTaskNotFound)

\* A DELETE of an id that was deleted before is about to be answered 404, while a
\* PATCH of the same id waits for the lock.
C28_Witness ==
    \E p, q \in Procs :
        /\ pc[p] = "unlock" /\ op[p].kind = "Delete"
        /\ op[p].id \in deletedIds
        /\ Response(op[p], result[p]).status = 404
        /\ pc[q] = "lock" /\ op[q].kind = "Toggle" /\ op[q].id = op[p].id

LiveIds == { createdIds[i] : i \in 1..Len(createdIds) } \ deletedIds

\* C30: a read observes every write that has returned: what GetAll is about to
\* return holds exactly the tasks whose Create has returned and that no returned
\* Delete has removed, the task of the latest Create among them as Create returned
\* it (but for completed), each with the completed flag the returned Toggles have
\* left; GetByID finds a task exactly when its Create has returned and no Delete of
\* it has, and shows that same flag.
C30_ReadsSeeCompletedWrites ==
    \A p \in Procs :
        /\ (pc[p] = "runlock" /\ op[p].kind = "GetAll") =>
              LET l == result[p].list
              IN  /\ Ids(l) = LiveIds
                  /\ Len(l) = Cardinality(LiveIds)
                  /\ \A i \in 1..Len(l) : l[i].completed <=> l[i].id \in toggled
                  /\ (lastCreated # ZeroTask /\ lastCreated.id \notin deletedIds) =>
                        \E i \in 1..Len(l) : [l[i] EXCEPT !.completed = FALSE] = lastCreated
        /\ (pc[p] = "runlock" /\ op[p].kind = "GetByID") =>
              /\ result[p].err = NoErr <=> op[p].id \in LiveIds
              /\ result[p].err = NoErr =>
                    /\ result[p].task.id = op[p].id
                    /\ result[p].task.completed <=> op[p].id \in toggled

\* After two Creates, a Toggle and a Delete have returned, GetAll is about to return
\* the one task that is left, completed, while a writer waits for the reader to
\* leave.
C30_Witness ==
    \E p, q \in Procs :
        /\ pc[p] = "runlock" /\ op[p].kind = "GetAll"
        /\ Len(createdIds) = 2 /\ deletedIds # {}
        /\ Len(result[p].list) = 1 /\ result[p].list[1].completed
        /\ pc[q] = "drain"

\* --------------------------------------------------------------------- C31

\* Row i of the list is visible: it does not carry d-none.
RowVisible(i) == ~listItems[i].dnone

\* C31: on the page, whatever filter buttons and Show All have been clicked, a row
\* is visible exactly when no filter is active or the row's priority is one of the
\* active filters; a click on the button of an active filter takes it (and nothing
\* else) out of the set, a click on the button of an inactive one puts it in, and
\* Show All leaves the set empty.
C31_FilterShowsMatches ==
    /\ [](\A i \in 1..Len(listItems) :
            RowVisible(i) <=> (activeFilters = {} \/ listItems[i].priority \in activeFilters))
    /\ [][\A priority \in FilterButtons :
            filterByPriority(priority) =>
                activeFilters' = IF priority \in activeFilters
                                 THEN activeFilters \ {priority}
                                 ELSE activeFilters \cup {priority}]_vars
    /\ [][clearFilters => activeFilters' = {}]_vars

\* Two filters are active, one row of the list is visible and the other is hidden.
C31_Witness ==
    /\ Cardinality(activeFilters) = 2
    /\ Len(listItems) = 2
    /\ RowVisible(1) /\ ~RowVisible(2)

\* --------------------------------------------------------------------- C32

\* C32: the ids of the tasks created are "1", "2", "3", ... in the order of their
\* creation, without a gap, whatever calls were made in between: the i-th Create to
\* succeed returns the decimal string of i; while no Create is inside the store the
\* counter stands one above the number of tasks created; and no step of a rejected
\* Create, of a Toggle or of a Delete changes the counter.
C32_RejectedCreateKeepsIds ==
    /\ [](\A i \in 1..Len(createdIds) : createdIds[i] = Itoa(i))
    /\ []((\A p \in Procs : pc[p] \in {"idle", "svcRet"}) => nextID = Len(createdIds) + 1)
    /\ [][\A p \in Procs :
            (/\ pc'[p] # pc[p]
             /\ \/ pc[p] = "svcRet" \/ pc'[p] = "svcRet"
                \/ op[p].kind \in {"Toggle", "Delete"}
                \/ op'[p].kind \in {"Toggle", "Delete"}) => nextID' = nextID
       ]_vars

\* The first Create has returned the id "1", a Delete has removed that task, and a
\* Create with an empty title has just been rejected: the counter stands at 2.
C32_Witness ==
    /\ pc[Solo] = "svcRet"
    /\ result[Solo].err = ErrEmptyTitle
    /\ createdIds = <<"1">>
    /\ deletedIds = {"1"}
    /\ nextID = 2

\* --------------------------------------------------------------------- C33

\* p is inside Toggle, between s.mu.Lock() and the deferred s.mu.Unlock().
InsideToggle(p) == op[p].kind = "Toggle" /\ pc[p] \in {"t_scan", "t_flip", "unlock"}

\* C33: Toggle calls that overlap do not lose a flip: no two goroutines are inside
\* Toggle at once; the flag a Toggle flips is the flag the last call to return has
\* left (that of the one-at-a-time store), and the task it returns carries the
\* flipped flag; so each Toggle of a task returns the opposite of what the Toggle
\* before it returned, and once every call has returned, the flag of a stored task
\* is false flipped once for each Toggle of it.
C33_NoLostToggle ==
    /\ [](\A p, q \in Procs : (p # q /\ InsideToggle(p)) => ~InsideToggle(q))
    /\ [][\A p \in Procs :
            (pc[p] = "t_flip" /\ pc'[p] = "unlock") =>
                LET i == idx[p]
                IN  /\ tasks[i] = absTasks[i]
                    /\ tasks'[i].completed = ~absTasks[i].completed
                    /\ result'[p].task = tasks'[i]
                    /\ absTasks[i].completed <=> absTasks[i].id \in toggled
       ]_vars
    /\ []((\A p \in Procs : pc[p] = "idle") =>
            \A i \in 1..Len(tasks) : tasks[i].completed <=> tasks[i].id \in toggled)

\* Two Toggles of the second of two tasks overlap: one has flipped the task to
\* completed and is about to return it, the other waits for the lock.
C33_Witness ==
    \E p, q \in Procs :
        /\ p # q
        /\ InsideToggle(p) /\ pc[p] = "unlock" /\ result[p].err = NoErr
        /\ Len(tasks) = 2 /\ op[p].id = tasks[2].id
        /\ result[p].task.completed /\ op[p].id \notin toggled
        /\ pc[q] = "lock" /\ op[q].kind = "Toggle" /\ op[q].id = op[p].id

\* --------------------------------------------------------------------- C34

\* p is inside Delete, between s.mu.Lock() and the deferred s.mu.Unlock().
InsideDelete(p) == op[p].kind = "Delete" /\ pc[p] \in {"d_scan", "d_shift", "unlock"}

\* C34: of the Deletes of one id, overlapping or not, one succeeds and the others
\* get ErrTaskNotFound: no two goroutines are inside Delete at once; a Delete about
\* to return has succeeded exactly when the list the last call left holds its id,
\* and has then made the list one shorter, and has otherwise left the list as it
\* was and returns ErrTaskNotFound; a Delete that returns success is the first to
\* do so for its id; and once every call has returned the store holds one task
\* less for each id deleted.
C34_OneDeleteWins ==
    /\ [](\A p, q \in Procs : (p # q /\ InsideDelete(p)) => ~InsideDelete(q))
    /\ [](\A p \in Procs :
            (pc[p] = "unlock" /\ op[p].kind = "Delete") =>
                IF op[p].id \in Ids(absTasks)
                THEN /\ result[p].err = NoErr
                     /\ Len(tasks) = Len(absTasks) - 1
                     /\ Ids(tasks) = Ids(absTasks) \ {op[p].id}
                ELSE /\ result[p].err = ErrTaskNotFound
                     /\ tasks = absTasks)
    /\ [][\A p \in Procs :
            (/\ pc[p] = "unlock" /\ pc'[p] = "idle"
             /\ op[p].kind = "Delete" /\ result[p].err = NoErr) =>
                /\ op[p].id \notin deletedIds
                /\ deletedIds' = deletedIds \cup {op[p].id}
       ]_vars
    /\ []((\A p \in Procs : pc[p] = "idle") =>
            Len(tasks) = Len(createdIds) - Cardinality(deletedIds))

\* Two Deletes of the first of two tasks overlap: one has removed the task and is
\* about to return success, the other waits for the lock.
C34_Witness ==
    \E p, q \in Procs :
        /\ p # q
        /\ InsideDelete(p) /\ pc[p] = "unlock" /\ result[p].err = NoErr
        /\ Len(absTasks) = 2 /\ absTasks[1].id = op[p].id
        /\ Len(tasks) = 1
        /\ pc[q] = "lock" /\ op[q].kind = "Delete" /\ op[q].id = op[p].id

\* --------------------------------------------------------------------- C35

\* C35: a Toggle about to return success has left the store as it found it but for
\* one flag: as many tasks as before, the same ids at the same places, every task
\* with another id equal to what it was in every field, the task with its id equal
\* to what it was in every field but completed, which is negated, and the id counter
\* where it stood.
C35_ToggleFrame ==
    \A p \in Procs :
        (pc[p] = "unlock" /\ op[p].kind = "Toggle" /\ result[p].err = NoErr) =>
            /\ Len(tasks) = Len(absTasks)
            /\ nextID = absNext
            /\ \A i \in 1..Len(absTasks) :
                  IF absTasks[i].id = op[p].id
                  THEN tasks[i] = [absTasks[i] EXCEPT !.completed = ~absTasks[i].completed]
                  ELSE tasks[i] = absTasks[i]

\* A Toggle of the first of two tasks that differ in title, priority and colour is
\* about to return it completed; the second task is not completed and the counter
\* stands at 3.
C35_Witness ==
    \E p \in Procs :
        /\ pc[p] = "unlock" /\ op[p].kind = "Toggle" /\ result[p].err = NoErr
        /\ Len(tasks) = 2 /\ op[p].id = tasks[1].id
        /\ tasks[1].completed /\ ~tasks[2].completed
        /\ tasks[1].title # tasks[2].title
        /\ tasks[1].priority # tasks[2].priority
        /\ tasks[1].color # tasks[2].color
        /\ nextID = 3

\* --------------------------------------------------------------------- C36

Stripped(t) ==
    LET ns == { i \in 1..Len(t) : ~IsSpace(t[i]) }
    IN  IF ns = {} THEN <<>>
        ELSE SubSeq(t, CHOOSE i \in ns : \A j \in ns : i <= j,
                       CHOOSE i \in ns : \A j \in ns : i >= j)

\* A title of 257 bytes whose part between the white space is 255 bytes long.
PaddedTitle == <<" ">> \o Rep("a", MaxTitleLen) \o <<"\n">>

\* C37: TaskService.Create called with the title t goes on to the store with t
\* without its surrounding white space, and the limit of 255 bytes is that of this
\* stripped title: with an accepted priority and colour the call is accepted exactly
\* when the stripped title is not empty and at most 255 bytes long, however long t
\* itself is, and is rejected as too long only when the stripped title is longer.
\* The task a Create is about to return, the last of the list, carries that title.
C37_TrimThenLimit ==
    /\ [][\A t \in SoloTitleInputs, priority \in SoloPriorityInputs, color \in SoloColorInputs :
            (/\ pc[Solo] = "idle" /\ op'[Solo].kind = "Create"
             /\ op'[Solo].sentPriority = priority /\ op'[Solo].sentColor = color
             /\ SvcCreateCall(Solo, t, priority, color)) =>
                /\ pc'[Solo] = "lock" => op'[Solo].title = Stripped(t)
                /\ (priority \in AllowedPriorities \cup {""} /\ color \in AllowedColors \cup {""}) =>
                      (pc'[Solo] = "lock" <=>
                          (Stripped(t) # <<>> /\ ByteLen(Stripped(t)) <= MaxTitleLen))
                /\ (pc'[Solo] = "svcRet" /\ result'[Solo].err = ErrTitleTooLong) =>
                      ByteLen(Stripped(t)) > MaxTitleLen
       ]_vars
    /\ [](\A p \in Procs :
            (pc[p] = "unlock" /\ op[p].kind = "Create") =>
                /\ result[p].task.title = op[p].title
                /\ tasks[Len(tasks)].title = op[p].title)

\* A Create is about to return, as the second task of the store, a task whose title
\* is the 255 bytes between the white space of a title of 257 bytes, one of the
\* titles that are sent.
C37_Witness ==
    \E p \in Procs :
        /\ pc[p] = "unlock" /\ op[p].kind = "Create"
        /\ PaddedTitle \in SoloTitleInputs
        /\ ByteLen(PaddedTitle) = MaxTitleLen + 2
        /\ result[p].task.title = Stripped(PaddedTitle)
        /\ Len(tasks) = 2 /\ tasks[2] = result[p].task

\* --------------------------------------------------------------------- C38

\* The values the checks are asked about: the five markers, the seven colours, the
\* empty string, the values the tests expect to fail, and values close to accepted
\* ones (a colour in capitals, a colour without its #, a marker followed by a space).
ValidatorInputs ==
    AllowedPriorities \cup AllowedColors \cup
    {"", "U+274C", "high", "#invalid", "red", "#DC3545", "dc3545", "U+1F525 "}

\* C38: isValidPriority answers true for each of the five markers and false for every
\* other value, the empty string and the colours among them; isValidColor answers
\* true for each of the seven colours and false for every other value, the empty
\* string and the markers among them. So a Create that has passed the checks carries
\* one of the five markers and one of the seven colours, and a Create rejected for
\* its priority or colour was sent a value that is none of them.
C38_ValidatorsExact ==
    /\ \A v \in ValidatorInputs :
          /\ isValidPriority(v) <=> v \in AllowedPriorities
          /\ isValidColor(v) <=> v \in AllowedColors
    /\ Cardinality({ v \in ValidatorInputs : isValidPriority(v) }) = 5
    /\ Cardinality({ v \in ValidatorInputs : isValidColor(v) }) = 7
    /\ ~isValidPriority("") /\ ~isValidColor("")
    /\ \A p \in Procs :
          /\ (op[p].kind = "Create" /\ pc[p] \notin {"idle", "svcRet"}) =>
                (isValidPriority(op[p].priority) /\ isValidColor(op[p].color))
          /\ (pc[p] = "svcRet" /\ result[p].err = ErrInvalidPriority) =>
                ~isValidPriority(op[p].sentPriority)
          /\ (pc[p] = "svcRet" /\ result[p].err = ErrInvalidColor) =>
                ~isValidColor(op[p].sentColor)

\* The checks have answered both ways: the store holds a task with the default
\* marker and the default colour, put in for an empty priority and colour and
\* accepted, and a Create sent with the marker U+1F525 and the colour "#invalid" is
\* about to return ErrInvalidColor.
C38_Witness ==
    \E p \in Procs :
        /\ pc[p] = "svcRet" /\ result[p].err = ErrInvalidColor
        /\ op[p].sentPriority = PriorityUrgentImportant /\ isValidPriority(op[p].sentPriority)
        /\ op[p].sentColor = "#invalid" /\ ~isValidColor(op[p].sentColor)
        /\ Len(tasks) = 1
        /\ tasks[1].priority = PriorityDefault /\ tasks[1].color = ColorGrey

====
